---- MODULE Spec2Model ----
(***************************************************************************)
(* A model of nslcd.c, the LDAP local connection daemon: command line      *)
(* parsing, daemonisation, pid file, listener, privilege pipeline, signal  *)
(* handlers, the accept loop and the exit handler.                         *)
(*                                                                         *)
(* The process is one thread of control (pc) plus asynchronous signal      *)
(* delivery.  Each step of main() that makes a system call the environment *)
(* decides is one action; a call to exit() runs the registered exit        *)
(* handler in the same step.                                               *)
(***************************************************************************)
EXTENDS Integers, Sequences, FiniteSets, TLC

(***************************************************************************)
(* Bounds of the model.                                                    *)
(***************************************************************************)
\* longest command line (number of arguments after argv[0])
MaxArgs == 2
\* number of connections the environment offers during one run
MaxConns == 2
\* number of invocations of the listener's close operation in CloseSpec
MaxCloseCalls == 2

(***************************************************************************)
(* Program constants.                                                      *)
(***************************************************************************)
\* signal numbers (Linux)
SIGHUP == 1
SIGINT == 2
SIGQUIT == 3
SIGABRT == 6
SIGUSR1 == 10
SIGUSR2 == 12
SIGPIPE == 13
SIGTERM == 15

\* the install_sighandler() calls of main(), in program order
SigOrder == <<SIGHUP, SIGINT, SIGQUIT, SIGABRT, SIGPIPE, SIGTERM, SIGUSR1, SIGUSR2>>

FixedSignals == {SigOrder[i] : i \in 1..Len(SigOrder)}

\* (gid_t)-1 and (uid_t)-1: "no target identity"
NoId == -1

(***************************************************************************)
(* Values the environment supplies; any other values would do.             *)
(***************************************************************************)
\* identities of the process at start
StartUid == 0
StartGid == 0

\* identities a configuration could name (used by ConfSpec only)
TargetGid == 5
TargetUid == 7

\* descriptor returned by a successful nslcd_server_open()
ListenFd == 3

\* process ids before and after daemon(0,0)
ParentPid == 41
ChildPid == 42

\* a build without setgroups()
HAVE_SETGROUPS_undefined == FALSE

\* build has setgroups()
HAVE_SETGROUPS == TRUE

\* the pid file name handed to write_pidfile(); "NULL" stands for NULL
NSLCD_PIDFILE == "/var/run/nslcd.pid"

\* command line tokens: the three options of nslcd_options/NSLCD_OPTIONSTRING,
\* -f/--config (documented by display_usage, absent from the option table),
\* some other unknown option, and a non-option argument
Tokens == {"d", "h", "V", "f", "bogus", "arg"}

\* errno values of accept()
TransientErrnos == {"EINTR", "EAGAIN", "EWOULDBLOCK"}
OtherErrnos == {"EBADF", "ECONNABORTED"}

\* descriptor flags of an accepted connection as accept() hands it out
ConnFlags == {{"O_RDWR"}, {"O_RDWR", "O_NONBLOCK"}}

VARIABLES
  argv,                \* the command line (without argv[0])
  pc,                  \* position of main()
  exitstatus,          \* -1 while running, else the exit status
  nslcd_debugging,     \* static int nslcd_debugging
  nslcd_exitsignal,    \* static volatile int nslcd_exitsignal
  nslcd_serversocket,  \* static int nslcd_serversocket
  mygid, myuid,        \* locals of main()
  atexit_registered,   \* atexit(exithandler) has been called
  pid,                 \* getpid()
  pidfile,             \* the pid file: does it exist, and its contents
  egid, euid,          \* identity of the process
  syscalls,            \* privilege system calls issued, with their results
  installed,           \* number of install_sighandler() calls completed
  done,                \* startup stages completed successfully, in order
  listen_open,         \* the listener descriptor is open in the kernel
  nclose,              \* close() calls issued on the listener descriptor
  warnings,            \* "problem closing server socket" lines logged
  bailouts,            \* "bailing out" lines logged (runs of exithandler)
  log,                 \* other log lines written: startup, fatal errors, shutdown
  conns,               \* connections accepted so far
  csock, errno, j,     \* locals of acceptconnection() and errno
  firstsig,            \* first signal delivered to sigexit_handler (0: none)
  lastsig,             \* last signal delivered to sigexit_handler (0: none)
  postsig_accepts,     \* connections accepted after the first delivery
  postsig_cycles       \* acceptconnection() returns after the first delivery

exitVars == <<exitstatus, listen_open, nclose, warnings, bailouts>>
sigVars == <<nslcd_exitsignal, firstsig, lastsig>>
connVars == <<conns, csock, errno, j, postsig_accepts, postsig_cycles>>
privVars == <<egid, euid, syscalls>>
startVars == <<argv, nslcd_debugging, mygid, myuid, atexit_registered, pid,
               pidfile, installed, nslcd_serversocket, done>>

vars == <<pc, log, exitVars, sigVars, connVars, privVars, startVars>>

(***************************************************************************)
(* Helpers.                                                                *)
(***************************************************************************)
RECURSIVE SeqsUpTo(_, _)
SeqsUpTo(S, n) ==
  IF n = 0 THEN {<<>>}
  ELSE LET shorter == SeqsUpTo(S, n - 1)
       IN shorter \cup {Append(s, x) : s \in {t \in shorter : Len(t) = n - 1}, x \in S}

Digit(d) == CASE d = 0 -> "0" [] d = 1 -> "1" [] d = 2 -> "2" [] d = 3 -> "3"
              [] d = 4 -> "4" [] d = 5 -> "5" [] d = 6 -> "6" [] d = 7 -> "7"
              [] d = 8 -> "8" [] d = 9 -> "9"

\* printf("%d") of a non-negative int, as a sequence of characters
RECURSIVE Decimal(_)
Decimal(n) == IF n < 10 THEN <<Digit(n)>> ELSE Append(Decimal(n \div 10), Digit(n % 10))


(***************************************************************************)
(* parse_cmdline(): getopt_long() hands out the options in command line    *)
(* order, skipping (permuting away) non-option arguments; the first        *)
(* option that is help, version or unknown ends the process.  The          *)
(* non-option arguments are looked at after the loop (optind<argc).        *)
(* Result: exit is the status of exit(), -1 if parse_cmdline() returns.    *)
(***************************************************************************)
RECURSIVE getopt_loop(_, _, _)
getopt_loop(args, i, dbg) ==
  IF i > Len(args)
  THEN [exit |-> IF \E k \in 1..Len(args) : args[k] = "arg" THEN 1 ELSE -1,
        debugging |-> dbg]
  ELSE CASE args[i] = "d" -> getopt_loop(args, i + 1, 1)
         [] args[i] = "h" -> [exit |-> 0, debugging |-> dbg]
         [] args[i] = "V" -> [exit |-> 0, debugging |-> dbg]
         [] args[i] = "arg" -> getopt_loop(args, i + 1, dbg)
         [] OTHER -> [exit |-> 1, debugging |-> dbg]

\* the check for remaining arguments left out
parse_cmdline_noargcheck(args) ==
  getopt_loop(SelectSeq(args, LAMBDA t : t # "arg"), 1, 0)

parse_cmdline(args) == getopt_loop(args, 1, 0)

(***************************************************************************)
(* sigexit_handler(): the value stored into nslcd_exitsignal.              *)
(***************************************************************************)
\* a handler in which SIGUSR2 takes the request back
sigexit_handler_cancel(signum) == IF signum = SIGUSR2 THEN 0 ELSE signum

\* a handler that only raises a flag
sigexit_handler_flag(signum) == 1

sigexit_handler(signum) == signum

(***************************************************************************)
(* exithandler(): close the server socket if the variable holds a          *)
(* descriptor, warn if close() fails, log the bailing out line.  close()   *)
(* succeeds on an open descriptor and fails (EBADF) on one already closed. *)
(* The variable nslcd_serversocket is left as it is.                       *)
(***************************************************************************)
\* the close issued without looking at the descriptor
exithandler_unguarded ==
  /\ nclose' = nclose + 1
  /\ listen_open' = FALSE
  /\ warnings' = IF listen_open THEN warnings ELSE warnings + 1
  /\ bailouts' = bailouts + 1

exithandler ==
  /\ IF nslcd_serversocket >= 0
     THEN /\ nclose' = nclose + 1
          /\ listen_open' = FALSE
          /\ warnings' = IF listen_open THEN warnings ELSE warnings + 1
     ELSE UNCHANGED <<nclose, listen_open, warnings>>
  /\ bailouts' = bailouts + 1

(***************************************************************************)
(* exit(status): run the handler registered with atexit(), then terminate. *)
(***************************************************************************)
Exit(status) ==
  /\ pc' = "exited"
  /\ exitstatus' = status
  /\ IF atexit_registered
     THEN exithandler
     ELSE UNCHANGED <<listen_open, nclose, warnings, bailouts>>

Logged(line) == log' = log \cup {line}

(***************************************************************************)
(* The state after the process has been started.                           *)
(***************************************************************************)
InitCommon ==
  /\ argv \in SeqsUpTo(Tokens, MaxArgs)
  \* a repeated -d only repeats nslcd_debugging=1: one -d stands for them all
  /\ \A a, b \in 1..Len(argv) : (argv[a] = "d" /\ argv[b] = "d") => a = b
  /\ pc = "parse"
  /\ exitstatus = -1
  /\ nslcd_debugging = 0
  /\ nslcd_exitsignal = 0
  /\ nslcd_serversocket = -1
  /\ atexit_registered = FALSE
  /\ pid = ParentPid
  /\ pidfile = [exists |-> FALSE, content |-> <<>>]
  /\ egid = StartGid
  /\ euid = StartUid
  /\ syscalls = <<>>
  /\ installed = 0
  /\ done = <<>>
  /\ listen_open = FALSE
  /\ nclose = 0
  /\ warnings = 0
  /\ bailouts = 0
  /\ log = {}
  /\ conns = <<>>
  /\ csock = 0
  /\ errno = "none"
  /\ j = {}
  /\ firstsig = 0
  /\ lastsig = 0
  /\ postsig_accepts = 0
  /\ postsig_cycles = 0

\* main() as written: gid_t mygid=-1; uid_t myuid=-1;
Init ==
  /\ InitCommon
  /\ mygid = NoId
  /\ myuid = NoId

\* main() with its two locals holding a configured target identity
ConfInit ==
  /\ InitCommon
  /\ mygid \in {NoId, TargetGid}
  /\ myuid \in {NoId, TargetUid}

(***************************************************************************)
(* main(): startup.                                                        *)
(***************************************************************************)
ParseCmdline ==
  /\ pc = "parse"
  /\ LET r == parse_cmdline(argv)
     IN /\ nslcd_debugging' = r.debugging
        /\ IF r.exit >= 0
           THEN Exit(r.exit)
           ELSE /\ pc' = "daemonize"
                /\ UNCHANGED exitVars
  /\ UNCHANGED <<log, sigVars, connVars, privVars, argv, mygid, myuid,
                 atexit_registered, pid, pidfile, installed, nslcd_serversocket, done>>

\* if ((!nslcd_debugging)&&(daemon(0,0)<0)) exit(1); daemon() continues in
\* the forked child
Daemonize ==
  /\ pc = "daemonize"
  /\ \E ok \in BOOLEAN :
       IF nslcd_debugging = 0 /\ ~ok
       THEN /\ Logged(<<"unable to daemonize", 0>>)
            /\ Exit(1)
            /\ UNCHANGED pid
       ELSE /\ pid' = IF nslcd_debugging = 0 THEN ChildPid ELSE pid
            /\ pc' = "atexit"
            /\ UNCHANGED <<log, exitVars>>
  /\ UNCHANGED <<sigVars, connVars, privVars, argv, nslcd_debugging, mygid, myuid,
                 atexit_registered, pidfile, installed, nslcd_serversocket, done>>

\* umask(0022); log_startlogging(); "starting"; atexit(exithandler);
RegisterExithandler ==
  /\ pc = "atexit"
  /\ Logged(<<"starting", 0>>)
  /\ atexit_registered' = TRUE
  /\ pc' = "pidfile"
  /\ UNCHANGED <<exitVars, sigVars, connVars, privVars, argv, nslcd_debugging,
                 mygid, myuid, pid, pidfile, installed, nslcd_serversocket, done>>

\* write_pidfile(): what is in the file after the call that ended as r
\* (fopen truncates; a failing fclose may or may not have flushed)
\* the process id taken before daemon() forked
write_pidfile_stale(filename, r, flushed) ==
  [exists |-> TRUE, content |-> Append(Decimal(ParentPid), "\n")]

write_pidfile(filename, r, flushed) ==
  IF filename = "NULL" THEN pidfile
  ELSE CASE r = "fopen" -> pidfile
         [] r = "fprintf" -> [exists |-> TRUE, content |-> <<>>]
         [] r = "fclose" -> [exists |-> TRUE,
                             content |-> IF flushed THEN Append(Decimal(pid), "\n")
                                                    ELSE <<>>]
         [] OTHER -> [exists |-> TRUE, content |-> Append(Decimal(pid), "\n")]

WritePidfile ==
  /\ pc = "pidfile"
  /\ \E r \in {"ok", "fopen", "fprintf", "fclose"}, flushed \in BOOLEAN :
       /\ pidfile' = write_pidfile(NSLCD_PIDFILE, r, flushed)
       /\ IF NSLCD_PIDFILE # "NULL" /\ r # "ok"
          THEN /\ Logged(<<"pid file error", 0>>)
               /\ Exit(1)
               /\ UNCHANGED done
          ELSE /\ pc' = "open"
               /\ done' = IF NSLCD_PIDFILE # "NULL" THEN Append(done, "pidfile") ELSE done
               /\ UNCHANGED <<log, exitVars>>
  /\ UNCHANGED <<sigVars, connVars, privVars, argv, nslcd_debugging, mygid, myuid,
                 atexit_registered, pid, installed, nslcd_serversocket>>

\* nslcd_server_open(): a descriptor, or a negative value on error
nslcd_server_open == {ListenFd, -1}

\* nslcd_serversocket=nslcd_server_open();  (the result is not looked at)
OpenListener ==
  /\ pc = "open"
  /\ \E fd \in nslcd_server_open :
       /\ nslcd_serversocket' = fd
       /\ listen_open' = (fd >= 0)
       /\ log' = IF fd >= 0 THEN log ELSE log \cup {<<"cannot create socket", 0>>}
       /\ done' = IF fd >= 0 THEN Append(done, "listener") ELSE done
  /\ pc' = "setgroups"
  /\ UNCHANGED <<exitstatus, nclose, warnings, bailouts, sigVars, connVars, privVars,
                 argv, nslcd_debugging, mygid, myuid, atexit_registered, pid,
                 pidfile, installed>>

(***************************************************************************)
(* main(): the privilege pipeline.                                         *)
(***************************************************************************)
\* setgroups(0,NULL): a failure is a warning
DropGroups ==
  /\ pc = "setgroups"
  /\ \E ok \in BOOLEAN :
       IF HAVE_SETGROUPS
       THEN syscalls' = Append(syscalls, <<"setgroups", ok>>)
       ELSE UNCHANGED syscalls
  /\ pc' = "setgid"
  /\ UNCHANGED <<log, exitVars, sigVars, connVars, egid, euid, startVars>>

\* setgid() called without the test for -1
gid_requested_always(gid) == TRUE

\* the branch of "if (mygid!=((gid_t)-1))": is setgid() to be called
gid_requested(gid) == gid # NoId

\* the branch of "if (myuid!=((uid_t)-1))": is setuid() to be called
uid_requested(uid) == uid # NoId

\* a setgid() failure that is logged but not fatal
after_setgid_continue(ok) == "setuid"

\* where main() goes when setgid() has returned: on to the uid change, or exit(1)
after_setgid(ok) == IF ok THEN "setuid" ELSE "exited"

\* where main() goes when setuid() has returned: on to the handlers, or exit(1)
after_setuid(ok) == IF ok THEN "install" ELSE "exited"

ChangeGid ==
  /\ pc = "setgid"
  /\ \E ok \in BOOLEAN :
       IF gid_requested(mygid)
       THEN /\ syscalls' = Append(syscalls, <<"setgid", ok>>)
            /\ egid' = IF ok THEN mygid ELSE egid
            /\ log' = IF ok THEN log ELSE log \cup {<<"cannot setgid", 0>>}
            /\ IF after_setgid(ok) = "exited"
               THEN Exit(1)
               ELSE /\ pc' = after_setgid(ok)
                    /\ UNCHANGED exitVars
       ELSE /\ pc' = "setuid"
            /\ UNCHANGED <<syscalls, egid, log, exitVars>>
  /\ UNCHANGED <<sigVars, connVars, euid, startVars>>

ChangeUid ==
  /\ pc = "setuid"
  /\ \E ok \in BOOLEAN :
       IF uid_requested(myuid)
       THEN /\ syscalls' = Append(syscalls, <<"setuid", ok>>)
            /\ euid' = IF ok THEN myuid ELSE euid
            /\ log' = IF ok THEN log ELSE log \cup {<<"cannot setuid", 0>>}
            /\ IF after_setuid(ok) = "exited"
               THEN Exit(1) /\ UNCHANGED done
               ELSE /\ pc' = after_setuid(ok)
                    /\ done' = Append(done, "privileges")
                    /\ UNCHANGED exitVars
       ELSE /\ pc' = "install"
            /\ done' = Append(done, "privileges")
            /\ UNCHANGED <<syscalls, euid, log, exitVars>>
  /\ UNCHANGED <<sigVars, connVars, egid, argv, nslcd_debugging, mygid, myuid,
                 atexit_registered, pid, pidfile, installed, nslcd_serversocket>>

(***************************************************************************)
(* main(): the eight install_sighandler() calls, one per step, then the    *)
(* "accepting connections" line.                                           *)
(***************************************************************************)
\* the loop entered as soon as the first handler is in place
after_install_first(n) == "loop"

\* position main() goes to when install_sighandler() number n has returned
after_install(n) == IF n = Len(SigOrder) THEN "loop" ELSE "install"

InstallSighandler ==
  /\ pc = "install"
  /\ \E ok \in BOOLEAN :
       IF ok
       THEN /\ installed' = installed + 1
            /\ pc' = after_install(installed + 1)
            /\ log' = IF after_install(installed + 1) = "loop"
                      THEN log \cup {<<"accepting connections", 0>>}
                      ELSE log
            /\ done' = IF installed + 1 = Len(SigOrder)
                       THEN Append(done, "sighandlers") ELSE done
            /\ UNCHANGED exitVars
       ELSE /\ Logged(<<"error installing signal handler", SigOrder[installed + 1]>>)
            /\ Exit(1)
            /\ UNCHANGED <<installed, done>>
  /\ UNCHANGED <<sigVars, connVars, privVars, argv, nslcd_debugging, mygid, myuid,
                 atexit_registered, pid, pidfile, nslcd_serversocket>>

\* the signals whose handler is sigexit_handler
Handled == {SigOrder[i] : i \in 1..installed}

(***************************************************************************)
(* Delivery of a signal whose handler is installed: sigexit_handler runs   *)
(* between two steps of main().  With SA_RESTART a system call that was    *)
(* blocked is resumed, so pc does not move.                                *)
(***************************************************************************)
Signal ==
  /\ pc # "exited"
  /\ \E signum \in Handled :
       /\ nslcd_exitsignal' = sigexit_handler(signum)
       /\ firstsig' = IF firstsig = 0 THEN signum ELSE firstsig
       /\ lastsig' = signum
  /\ UNCHANGED <<pc, log, exitVars, connVars, privVars, startVars>>

(***************************************************************************)
(* main(): while (nslcd_exitsignal==0) acceptconnection();                 *)
(***************************************************************************)
\* the loop condition inverted
loop_continues_inverted(exitsignal) == exitsignal # 0

\* the loop condition
loop_continues(exitsignal) == exitsignal = 0

LoopTest ==
  /\ pc = "loop"
  /\ pc' = IF loop_continues(nslcd_exitsignal) THEN "accept" ELSE "caught"
  /\ UNCHANGED <<log, exitVars, sigVars, connVars, privVars, startVars>>

\* return from acceptconnection() to the loop condition
ReturnToLoop ==
  /\ pc' = "loop"
  /\ csock' = 0
  /\ errno' = "none"
  /\ j' = {}
  /\ postsig_cycles' = IF firstsig # 0 THEN postsig_cycles + 1 ELSE postsig_cycles

\* close(csock) by the daemon
CloseCsock == conns' = [conns EXCEPT ![csock].dclosed = @ + 1]

\* what the blocked accept() call can return with: a new connection with its
\* inherited descriptor flags, or -1 and an errno
AcceptResults ==
  { [fd |-> Len(conns) + 1, err |-> "none", flags |-> f] :
      f \in IF nslcd_serversocket >= 0 /\ listen_open /\ Len(conns) < MaxConns
            THEN ConnFlags ELSE {} }
  \cup
  { [fd |-> -1, err |-> e, flags |-> {}] :
      e \in IF nslcd_serversocket >= 0 /\ listen_open
            THEN TransientErrnos \cup OtherErrnos ELSE {"EBADF"} }

\* csock=accept(nslcd_serversocket,...) returns
Accept ==
  /\ pc = "accept"
  /\ \E r \in AcceptResults :
       /\ csock' = r.fd
       /\ errno' = r.err
       /\ conns' = IF r.fd >= 0
                   THEN Append(conns, [flags |-> r.flags, handed |-> 0,
                                       dclosed |-> 0, hclosed |-> FALSE])
                   ELSE conns
       /\ postsig_accepts' = IF r.fd >= 0 /\ firstsig # 0
                             THEN postsig_accepts + 1 ELSE postsig_accepts
  /\ pc' = "accepted"
  /\ UNCHANGED <<log, exitVars, sigVars, j, postsig_cycles, privVars, startVars>>

\* an interrupted accept() treated as fatal
after_accept_error_fatal(e) == IF e = "EINTR" THEN "exited" ELSE "loop"

\* where acceptconnection() goes when accept() failed with errno e: it
\* returns, whether or not e is one of EINTR, EAGAIN, EWOULDBLOCK
after_accept_error(e) == IF e \in TransientErrnos THEN "loop" ELSE "loop"

\* if (csock<0) { ... return; }
AcceptCheck ==
  /\ pc = "accepted"
  /\ IF csock < 0
     THEN /\ IF after_accept_error(errno) = "loop"
             THEN ReturnToLoop /\ UNCHANGED exitVars
             ELSE Exit(1) /\ UNCHANGED <<csock, errno, j, postsig_cycles>>
          /\ UNCHANGED <<conns, postsig_accepts>>
     ELSE /\ pc' = "getfl"
          /\ UNCHANGED <<exitVars, connVars>>
  /\ UNCHANGED <<log, sigVars, privVars, startVars>>

\* if ((j=fcntl(csock,F_GETFL,0))<0) { close(csock); return; }
GetFlags ==
  /\ pc = "getfl"
  /\ \E ok \in BOOLEAN :
       IF ok
       THEN /\ j' = conns[csock].flags
            /\ pc' = "setfl"
            /\ UNCHANGED <<conns, csock, errno, postsig_cycles>>
       ELSE /\ CloseCsock
            /\ ReturnToLoop
  /\ UNCHANGED <<log, exitVars, sigVars, postsig_accepts, privVars, startVars>>

\* the flags written back as they were read
cleared_flags_same(flags) == flags

\* the flags handed to fcntl(csock,F_SETFL,...): j&~O_NONBLOCK
cleared_flags(flags) == flags \ {"O_NONBLOCK"}

\* if (fcntl(csock,F_SETFL,j&~O_NONBLOCK)<0) { close(csock); return; }
SetFlags ==
  /\ pc = "setfl"
  /\ \E ok \in BOOLEAN :
       IF ok
       THEN /\ conns' = [conns EXCEPT ![csock].flags = cleared_flags(j)]
            /\ pc' = "peercred"
            /\ UNCHANGED <<csock, errno, j, postsig_cycles>>
       ELSE /\ CloseCsock
            /\ ReturnToLoop
  /\ UNCHANGED <<log, exitVars, sigVars, postsig_accepts, privVars, startVars>>

\* does handleconnection() call the request handler when getsockopt() ended as ok
hands_over(ok) == ok

\* the close(csock) of the error branch forgotten
closes_on_peercred_never(ok) == FALSE

\* does handleconnection() close csock when getsockopt() ended as ok
closes_on_peercred(ok) == ~ok

\* handleconnection(): getsockopt(SO_PEERCRED), then nslcd_server_handlerequest()
PeerCred ==
  /\ pc = "peercred"
  /\ \E ok \in BOOLEAN :
       /\ conns' = [conns EXCEPT
                      ![csock].dclosed = IF closes_on_peercred(ok) THEN @ + 1 ELSE @,
                      ![csock].handed = IF hands_over(ok) THEN @ + 1 ELSE @]
       /\ IF hands_over(ok)
          THEN /\ pc' = "handler"
               /\ UNCHANGED <<csock, errno, j, postsig_cycles>>
          ELSE ReturnToLoop
  /\ UNCHANGED <<log, exitVars, sigVars, postsig_accepts, privVars, startVars>>

\* nslcd_server_handlerequest(csock) returns, having served the request or
\* failed at it; it closes the connection itself
HandlerReturn ==
  /\ pc = "handler"
  /\ \E ok \in BOOLEAN :
       conns' = [conns EXCEPT ![csock].hclosed = TRUE]
  /\ ReturnToLoop
  /\ UNCHANGED <<log, exitVars, sigVars, postsig_accepts, privVars, startVars>>

\* a shutdown on a signal reported as success
main_return_zero == IF nslcd_exitsignal # 0 THEN 0 ELSE 1

\* the status main() returns after the loop
main_return == 1

\* after the loop: log the signal, return 1 (exit runs the exit handler)
Caught ==
  /\ pc = "caught"
  /\ log' = IF nslcd_exitsignal # 0
            THEN log \cup {<<"caught signal", nslcd_exitsignal>>}
            ELSE log
  /\ Exit(main_return)
  /\ UNCHANGED <<sigVars, connVars, privVars, startVars>>

(***************************************************************************)
(* The listener's close operation (exithandler) invoked once more after    *)
(* it has run: the second call of the idempotence test.                    *)
(***************************************************************************)
CloseAgain ==
  /\ pc = "exited"
  /\ bailouts >= 1
  /\ bailouts < MaxCloseCalls
  /\ exithandler
  /\ UNCHANGED <<pc, exitstatus, log, sigVars, connVars, privVars, startVars>>

Startup ==
  \/ ParseCmdline
  \/ Daemonize
  \/ RegisterExithandler
  \/ WritePidfile
  \/ OpenListener
  \/ DropGroups
  \/ ChangeGid
  \/ ChangeUid
  \/ InstallSighandler

\* steps main() takes on its own once it is in the loop
Serve ==
  \/ LoopTest
  \/ AcceptCheck
  \/ GetFlags
  \/ SetFlags
  \/ PeerCred
  \/ HandlerReturn
  \/ Caught

Next == Startup \/ Serve \/ Accept \/ Signal

\* the program as written
Spec == Init /\ [][Next]_vars

\* the program with a target identity in mygid/myuid
ConfSpec == ConfInit /\ [][Next]_vars

\* a test that calls the close operation again
CloseSpec == Init /\ [][Next \/ CloseAgain]_vars

\* main() keeps running: every step is taken except the return of a blocked
\* accept() and the delivery of a signal, which are the environment's
\* (accept() on a descriptor that is not open returns at once)
FairSpec ==
  /\ Spec
  /\ WF_vars(Startup)
  /\ WF_vars(Serve)
  /\ WF_vars(Accept /\ ~listen_open)

(***************************************************************************)
(* Properties.                                                             *)
(***************************************************************************)
ServingPcs == {"loop", "accept", "accepted", "getfl", "setfl", "peercred", "handler"}

Called(name) == \E i \in 1..Len(syscalls) : syscalls[i][1] = name

Failed(name) == \E i \in 1..Len(syscalls) : syscalls[i] = <<name, FALSE>>

\* C1: when a target group is configured, setuid() is called only after a
\* setgid() that succeeded; a failed setgid() leaves the process exited with
\* status 1 and setuid() never called, and the process never runs on past
\* the pipeline without the group change done.
C1_GidBeforeUid ==
  gid_requested(mygid) =>
    /\ \A i \in 1..Len(syscalls) :
         syscalls[i][1] = "setuid" =>
           \E k \in 1..(i - 1) : syscalls[k] = <<"setgid", TRUE>>
    /\ Failed("setgid") => /\ ~Called("setuid")
                           /\ pc = "exited"
                           /\ exitstatus = 1
    /\ pc \in {"install", "caught"} \cup ServingPcs => egid = mygid

C1_Witness ==
  /\ gid_requested(mygid)
  /\ uid_requested(myuid)
  /\ Len(syscalls) >= 2
  /\ syscalls[Len(syscalls) - 1] = <<"setgid", TRUE>>
  /\ syscalls[Len(syscalls)][1] = "setuid"

StartupStages == <<"pidfile", "listener", "privileges", "sighandlers">>

FatalLines == {<<"unable to daemonize", 0>>, <<"pid file error", 0>>,
               <<"cannot setgid", 0>>, <<"cannot setuid", 0>>}
              \cup {<<"error installing signal handler", sig>> : sig \in FixedSignals}

\* C2: a connection has been accepted only if the pid file was written, the
\* listener opened, the privilege pipeline run and all eight handlers
\* installed, in this order; a failure of daemonisation, of the pid file, of
\* setgid, of setuid or of a handler installation leaves the process exited
\* with status 1 and the loop never entered.
C2_StartupBeforeAccept ==
  /\ Len(conns) > 0 =>
       /\ done = StartupStages
       /\ pidfile = [exists |-> TRUE, content |-> Append(Decimal(pid), "\n")]
       /\ nslcd_serversocket >= 0
       /\ installed = Len(SigOrder)
       /\ Handled = FixedSignals
       /\ gid_requested(mygid) => egid = mygid
       /\ uid_requested(myuid) => euid = myuid
  /\ (log \cap FatalLines # {} \/ Failed("setgid") \/ Failed("setuid")) =>
       /\ pc = "exited"
       /\ exitstatus = 1
       /\ <<"accepting connections", 0>> \notin log
       /\ conns = <<>>

C2_Witness ==
  /\ Len(conns) > 0
  /\ gid_requested(mygid)
  /\ uid_requested(myuid)
  /\ pc = "handler"

\* C3: nslcd_exitsignal holds the number of the signal delivered last, and
\* after the first delivery at most one more connection is accepted and at
\* most one more call of acceptconnection() returns.
C3_SignalStopsLoop ==
  /\ nslcd_exitsignal = lastsig
  /\ postsig_accepts <= 1
  /\ postsig_cycles <= 1

C3_Witness ==
  /\ pc = "exited"
  /\ firstsig = SIGTERM
  /\ nslcd_exitsignal = SIGTERM
  /\ postsig_accepts = 1
  /\ postsig_cycles = 1

\* C4: once the daemon is serving, a delivered signal leads to the process
\* having exited, also when no client connects any more.
C4_SignalLeadsToStopped ==
  (pc \in ServingPcs /\ nslcd_exitsignal # 0) ~> (pc = "exited")

\* C5: when opening the listener has failed the process never is in the
\* accept loop (with its invalid descriptor), and once it has exited the
\* status is 1, the "accepting connections" line was never logged and the
\* pid file is still there.
C5_ListenerFailureFatal ==
  <<"cannot create socket", 0>> \in log =>
    /\ pc \notin ServingPcs \cup {"caught"}
    /\ pc = "exited" => /\ exitstatus = 1
                        /\ <<"accepting connections", 0>> \notin log
                        /\ pidfile.exists

\* C6: the step that follows a transient accept() error goes back to the loop
\* condition, leaves the process running, nslcd_exitsignal and the
\* connections as they are; from the loop condition with nslcd_exitsignal
\* unset the next step is the call of accept().
C6_TransientAcceptRetries ==
  [][ /\ (pc = "accepted" /\ csock < 0 /\ errno \in TransientErrnos /\ pc' # pc) =>
          /\ pc' = "loop"
          /\ exitstatus' = -1
          /\ nslcd_exitsignal' = nslcd_exitsignal
          /\ conns' = conns
      /\ (pc = "loop" /\ nslcd_exitsignal = 0 /\ pc' # pc) => pc' = "accept"
    ]_vars

C6_Witness ==
  /\ pc = "accepted"
  /\ csock < 0
  /\ errno = "EINTR"
  /\ nslcd_exitsignal = 0
  /\ Len(conns) = 1

\* a step in which the daemon closes the connection it is working on
DaemonCloses == /\ csock > 0
                /\ conns'[csock].dclosed > conns[csock].dclosed

\* C7: the serving positions are left only for the shutdown path and only
\* with nslcd_exitsignal set; a failed accept(), a connection the daemon
\* closes and a returning request handler all lead back to the loop
\* condition with the process still running.
C7_ServingSurvivesFailures ==
  [][ /\ (pc \in ServingPcs /\ pc' \notin ServingPcs) =>
          /\ nslcd_exitsignal # 0
          /\ pc = "loop"
          /\ pc' = "caught"
      /\ ( \/ (pc = "accepted" /\ csock < 0 /\ pc' # pc)
           \/ (pc \in {"getfl", "setfl", "peercred"} /\ DaemonCloses)
           \/ (pc = "handler" /\ pc' # pc) ) =>
          /\ pc' = "loop"
          /\ exitstatus' = -1
    ]_vars

C7_Witness ==
  /\ pc = "accept"
  /\ nslcd_exitsignal = 0
  /\ Len(conns) = 2
  /\ conns[1].dclosed = 1
  /\ conns[2].hclosed

\* the connection has met its fate
ClosedUnhandled(c) == c.dclosed = 1 /\ c.handed = 0

HandedOver(c) == /\ c.handed = 1
                 /\ c.dclosed = 0
                 /\ "O_NONBLOCK" \notin c.flags

\* C8: every accepted connection the daemon is done with was either closed
\* by the daemon once without the handler being invoked, or handed to the
\* handler once with O_NONBLOCK cleared and not closed by the daemon; a
\* connection still being worked on has at most one of the two.
C8_ConnectionFate ==
  \A i \in 1..Len(conns) :
    /\ i # csock => (ClosedUnhandled(conns[i]) \/ HandedOver(conns[i]))
    /\ i = csock => \/ conns[i].dclosed = 0 /\ conns[i].handed = 0
                    \/ HandedOver(conns[i])

C8_Witness ==
  /\ pc = "loop"
  /\ csock = 0
  /\ \E i \in 1..Len(conns) : ClosedUnhandled(conns[i])
  /\ \E i \in 1..Len(conns) : HandedOver(conns[i]) /\ conns[i].hclosed

HelpOrVersion == \E k \in 1..Len(argv) : argv[k] \in {"h", "V"}

CaughtLines == {<<"caught signal", sig>> : sig \in FixedSignals}

C10_CloseIdempotent ==
  bailouts >= 2 => /\ nclose <= 1
                   /\ warnings = 0

\* C11: a process that exited after atexit(exithandler) has run the handler
\* once, with one close() of the listener descriptor if the listener was
\* opened and none if it was not, and without a warning; a process that
\* exited before has not run it; while the process runs the handler has not
\* run and an opened listener is still open.
C11_FinalizerOnce ==
  /\ (pc = "exited" /\ atexit_registered) =>
       /\ bailouts = 1
       /\ nclose = IF nslcd_serversocket >= 0 THEN 1 ELSE 0
       /\ warnings = 0
       /\ ~listen_open
  /\ (pc = "exited" /\ ~atexit_registered) => (bailouts = 0 /\ nclose = 0)
  /\ pc # "exited" =>
       /\ bailouts = 0
       /\ nclose = 0
       /\ nslcd_serversocket >= 0 => listen_open

C11_Witness ==
  /\ pc = "exited"
  /\ log \cap CaughtLines # {}
  /\ Len(conns) = 1
  /\ bailouts = 1
  /\ nclose = 1

\* the command line holds an option that is not in the table, or an argument
\* that is no option
Unrecognized == \E k \in 1..Len(argv) : argv[k] \in {"f", "bogus", "arg"}

\* help or version comes before every option that is not in the table
HelpFirst ==
  \E k \in 1..Len(argv) :
    /\ argv[k] \in {"h", "V"}
    /\ \A m \in 1..(k - 1) : argv[m] \in {"d", "arg"}

\* help or version comes before everything that is unrecognized
HelpFirstOfAll ==
  \E k \in 1..Len(argv) :
    /\ argv[k] \in {"h", "V"}
    /\ \A m \in 1..(k - 1) : argv[m] = "d"

\* nothing was done beyond parsing the command line
Untouched ==
  /\ pid = ParentPid
  /\ ~pidfile.exists
  /\ nslcd_serversocket = -1
  /\ ~listen_open
  /\ ~atexit_registered
  /\ bailouts = 0
  /\ done = <<>>
  /\ syscalls = <<>>
  /\ log = {}

\* C12 as stated: an invocation with an unrecognized option or a stray
\* argument has exited with status 1 once the command line is parsed, with
\* nothing daemonised, written, opened or finalised.
C12_UsageErrorExitsOne ==
  (Unrecognized /\ pc # "parse") =>
    /\ pc = "exited"
    /\ exitstatus = 1
    /\ Untouched

\* C12 amended: such an invocation has exited once the command line is
\* parsed, with nothing daemonised, written, opened or finalised; the status
\* is 1 when no help or version option comes before the first unrecognized
\* option, and 0 when one comes before everything that is unrecognized.
C12_UsageErrorExits ==
  (Unrecognized /\ pc # "parse") =>
    /\ pc = "exited"
    /\ exitstatus \in {0, 1}
    /\ ~HelpFirst => exitstatus = 1
    /\ HelpFirstOfAll => exitstatus = 0
    /\ Untouched

C12_Witness ==
  /\ argv = <<"d", "arg">>
  /\ pc = "exited"
  /\ exitstatus = 1
  /\ nslcd_debugging = 1

\* the command line is -f FILE, with or without -d around it
ConfigInvocation ==
  \E k \in 1..(Len(argv) - 1) :
    /\ argv[k] = "f"
    /\ argv[k + 1] = "arg"
    /\ \A m \in 1..Len(argv) : m \notin {k, k + 1} => argv[m] = "d"

\* C13: an invocation that is -f FILE (with or without -d) does not end as a
\* usage error: once the command line is parsed the process is on its way
\* through startup, not exited out of parse_cmdline().
C13_ConfigFlagAccepted ==
  (ConfigInvocation /\ pc # "parse") => ~(pc = "exited" /\ Untouched)

DigitValue(c) == CASE c = "0" -> 0 [] c = "1" -> 1 [] c = "2" -> 2 [] c = "3" -> 3
                   [] c = "4" -> 4 [] c = "5" -> 5 [] c = "6" -> 6 [] c = "7" -> 7
                   [] c = "8" -> 8 [] c = "9" -> 9

Digits == {"0", "1", "2", "3", "4", "5", "6", "7", "8", "9"}

\* the number a string of digits stands for
RECURSIVE DigitsValue(_)
DigitsValue(ds) ==
  IF ds = <<>> THEN 0
  ELSE 10 * DigitsValue(SubSeq(ds, 1, Len(ds) - 1)) + DigitValue(ds[Len(ds)])

\* the file holds digits and one newline after them
PidLine(content) ==
  /\ Len(content) >= 2
  /\ content[Len(content)] = "\n"
  /\ \A i \in 1..(Len(content) - 1) : content[i] \in Digits

\* C14: a pid file that exists was written after the exit handler was
\* registered, hence after daemonisation, by the process that daemon() left
\* running; from the successful write on the file is there and reads back as
\* the process id of the running daemon, on every exit path too; the
\* listener is opened only after that write.
C14_PidfileAfterDaemonize ==
  /\ pidfile.exists =>
       /\ atexit_registered
       /\ pid = IF nslcd_debugging = 0 THEN ChildPid ELSE ParentPid
  /\ (\E i \in 1..Len(done) : done[i] = "pidfile") =>
       /\ done[1] = "pidfile"
       /\ pidfile.exists
       /\ PidLine(pidfile.content)
       /\ DigitsValue(SubSeq(pidfile.content, 1, Len(pidfile.content) - 1)) = pid
  /\ (nslcd_serversocket >= 0 \/ <<"cannot create socket", 0>> \in log) =>
       /\ done # <<>>
       /\ done[1] = "pidfile"

C14_Witness ==
  /\ pc = "exited"
  /\ nslcd_debugging = 0
  /\ pid = ChildPid
  /\ pidfile.exists
  /\ pidfile.content = Append(Decimal(ChildPid), "\n")
  /\ log \cap CaughtLines # {}

\* C15: nslcd_exitsignal is 0 exactly as long as no signal has been
\* delivered to the handler and is not 0 ever after; its value is always
\* that of the last delivery, whatever step main() has taken since.
C15_ExitSignalMonotonic ==
  /\ (firstsig = 0) <=> (nslcd_exitsignal = 0)
  /\ (lastsig = 0) <=> (nslcd_exitsignal = 0)
  /\ nslcd_exitsignal \in {0} \cup Handled
  /\ nslcd_exitsignal # 0 => lastsig = nslcd_exitsignal

C15_Witness ==
  /\ pc = "exited"
  /\ firstsig = SIGTERM
  /\ lastsig = SIGUSR2
  /\ nslcd_exitsignal = SIGUSR2
  /\ Len(conns) = 1

PastSetgroups == {"setgid", "setuid", "install", "caught"} \cup ServingPcs

InFlight(c) == c.dclosed = 0 /\ ~c.hclosed

\* C17: at most one connection is in flight, it is the one acceptconnection()
\* is working on, and none is when main() is at the loop condition or in
\* accept().
C17_OneInFlight ==
  /\ \A i \in 1..Len(conns) : InFlight(conns[i]) => i = csock
  /\ pc \in {"loop", "accept"} => \A i \in 1..Len(conns) : ~InFlight(conns[i])

C17_Witness ==
  /\ pc = "handler"
  /\ Len(conns) = 2
  /\ csock = 2
  /\ conns[1].hclosed
  /\ InFlight(conns[2])

\* C18: the caught-signal line names the first signal delivered.
C18_LogsFirstSignal ==
  \A sig \in FixedSignals : <<"caught signal", sig>> \in log => sig = firstsig

\* C19: mygid and myuid hold -1 throughout, setgid() and setuid() are never
\* called, the only privilege call is setgroups(), and the process keeps the
\* identity it started with.
C19_IdentityUnchanged ==
  /\ mygid = NoId
  /\ myuid = NoId
  /\ ~Called("setgid")
  /\ ~Called("setuid")
  /\ \A i \in 1..Len(syscalls) : syscalls[i][1] = "setgroups"
  /\ egid = StartGid
  /\ euid = StartUid

C19_Witness ==
  /\ pc = "accept"
  /\ Len(conns) = 1
  /\ syscalls = <<<<"setgroups", TRUE>>>>
  /\ egid = StartGid
  /\ euid = StartUid

====
